---- MODULE Spec2Model ----
(***************************************************************************)
(* Model of merger.py (trunk-merger): the segmentation and splicing engine *)
(* combineTalkgroup and the pool run of main().                            *)
(*                                                                         *)
(* Time is counted in ticks.  One tick stands for the unit of the clip     *)
(* timestamps (one second, the 1000 ms of the stub kept for an empty       *)
(* segment); the 30 minute segment width and the one day lookback are      *)
(* scaled down to Width and LookbackSegs * Width ticks.  A track is a      *)
(* sequence with one sample per tick; a sample <<c, i, g>> is tick i of    *)
(* the audio of clip c (g = 1 once normalised), <<0, 0, 0>> is silence.    *)
(* The codec round trip export -> from_file is taken to preserve the       *)
(* samples and their number (the codec is an external collaborator).       *)
(***************************************************************************)
EXTENDS Integers, Sequences, FiniteSets, TLC

\* ---------------------------------------------------------------- bounds
MaxClips == 2         \* clip files ever written to the recording tree
MaxRuns == 2          \* invocations of the tool
MaxOrderClips == 3    \* clips of one segment when two splice orders are compared

\* ------------------------------------------------------ program constants
Width == 3            \* timedelta(minutes=30), scaled to ticks
LookbackSegs == 2     \* timedelta(days=1), scaled to segments
StubLen == 1          \* outputRec[0:1000]: one tick
Epoch == 0            \* datetime.min

LookbackLimit == LookbackSegs * Width

\* timestamps the recorder may give a clip: the start of the first segment,
\* its last tick, and one tick into the second segment
ClipTimes == {0, Width - 1, Width + 1}
\* durations of the clips, in ticks
ClipDurs == {1, 2}
\* values of datetime.now(): one per bucket after the first, up to one past
\* the lookback
NowTimes == {m * Width + 1 : m \in 1..(LookbackSegs + 1)}
\* the values of the global norm: set to TRUE by --normalize, else never bound
NormValues == {"true", "unbound"}
\* what decoding a clip file gives: its audio of dur ticks, or CouldntDecodeError
ClipKinds == {[ok |-> TRUE, dur |-> d] : d \in ClipDurs} \cup {[ok |-> FALSE, dur |-> 0]}

Silence == <<0, 0, 0>>
NoTG == 0

VARIABLES
  talkgroups,     \* the list getTalkgroups loaded from the csv file
  numThreads,     \* the pool size (-n)
  recFS,          \* clip files in the recording tree: records [id, tg, ts, dur, ok]
  outFS,          \* output files: <<tg, segment>> -> exported track (<<>>: zero-length file)
  nextId,         \* number of clip files written so far
  runs,           \* invocations started so far
  now,            \* datetime.now() of the current invocation
  remove, keepEmpty, norm,   \* the globals parseArgs sets
  mainPc,         \* "idle" (not running) | "map" (inside p.map)
  exit,           \* how the last invocation ended: "none" | "finished" | "raised"
  taskq,          \* talkgroups not yet handed to a worker
  result,         \* per talkgroup: "none" | "run" | "ok" | "exc"
  pc, tg,         \* per worker: position in combineTalkgroup, its talkgroup
  recFiles, timeSegments, segIdx, fileIdx,
  outputRec, hasAudio, filesToDelete,
  \* history of the current invocation
  spliced,        \* splices done: [id, tg, seg, delta, len]
  deleted,        \* files removed by os.remove: [id, tg, seg, ts]
  exported,       \* <<tg, segment>> whose export returned
  exportFailed,   \* <<tg, segment>> whose export raised
  discarded,      \* <<tg, segment>> skipped as empty
  removeFailed,   \* files whose os.remove raised: [id, tg, seg]
  touched,        \* file accesses: [w, kind, tg, key], kind "rec" (a clip file,
                  \* key its id) or "out" (an output file, key its segment)
  startRec,       \* the recording tree when the current invocation started
  prev            \* when the current invocation repeats the one before it on the
                  \* same recording tree, in the same bucket of now, and that one
                  \* finished: the archive it left and the splices it did

TGs == {talkgroups[i] : i \in 1..Len(talkgroups)}
Workers == 1..numThreads

vars == <<talkgroups, numThreads, recFS, outFS, nextId, runs, now, remove, keepEmpty, norm, mainPc, exit,
          taskq, result, pc, tg, recFiles, timeSegments, segIdx, fileIdx,
          outputRec, hasAudio, filesToDelete,
          spliced, deleted, exported, exportFailed, discarded, removeFailed, touched,
          startRec, prev>>

cfgVars == <<talkgroups, numThreads, remove, keepEmpty, norm>>
envVars == <<cfgVars, recFS, outFS, nextId, runs, now, mainPc, exit, taskq>>
histVars == <<spliced, deleted, exported, exportFailed, discarded, removeFailed, touched,
              startRec, prev>>
NoPrev == [same |-> FALSE, out |-> <<>>, spliced |-> {}]
localVars == <<recFiles, timeSegments, segIdx, fileIdx, outputRec, hasAudio, filesToDelete>>

\* ------------------------------------------------------------- helpers
Min(a, b) == IF a < b THEN a ELSE b

\* datetimeFloor(dt, delta): dt - (dt - datetime.min) % delta
datetimeFloor(dt, delta) == dt - ((dt - Epoch) % delta)

\* variant: the loop runs while current <= end
RECURSIVE datetimeRange_Inclusive(_, _, _)
datetimeRange_Inclusive(start, end, delta) ==
  IF start <= end THEN <<start>> \o datetimeRange_Inclusive(start + delta, end, delta) ELSE <<>>
\* datetimeRange(start, end, delta): start, start+delta, ... while < end
RECURSIVE datetimeRange(_, _, _)
datetimeRange(start, end, delta) ==
  IF start < end THEN <<start>> \o datetimeRange(start + delta, end, delta) ELSE <<>>

\* AudioSegment slice seg[a:b] in ticks: both ends clamped to the length
Slice(s, a, b) == SubSeq(s, Min(a, Len(s)) + 1, Min(b, Len(s)))
SliceTo(s, b) == Slice(s, 0, b)
SliceFrom(s, a) == Slice(s, a, Len(s))

\* AudioSegment.silent(duration)
Silent(n) == [i \in 1..n |-> Silence]

\* AudioSegment.from_file / from_wav of a clip, and effects.normalize
Decode(c) == [i \in 1..c.dur |-> <<c.id, i, 0>>]
Normalize(rec) == [i \in 1..Len(rec) |-> <<rec[i][1], rec[i][2], 1>>]

\* os.walk order: the order in which the files were written
RECURSIVE WalkOrder(_)
WalkOrder(S) ==
  IF S = {} THEN <<>>
  ELSE LET c == CHOOSE x \in S : \A y \in S : x.id <= y.id
       IN <<c>> \o WalkOrder(S \ {c})

MinTs(fs) == CHOOSE t \in {fs[i].ts : i \in 1..Len(fs)} : \A j \in 1..Len(fs) : t <= fs[j].ts

\* lines 234-245: the plan of segment starts
MaxDate == datetimeFloor(now, Width)
\* variant: the lookback is not clamped
MinDate_NoClamp(fs) == datetimeFloor(MinTs(fs), Width)
MinDate(fs) ==
  LET m == datetimeFloor(MinTs(fs), Width)
  IN IF MaxDate - m > LookbackLimit THEN MaxDate - LookbackLimit ELSE m
Plan(fs) == datetimeRange(MinDate(fs), MaxDate, Width)

\* line 274: segment < file[0] < segment + 30 min
Qualifies(c, seg) == seg < c.ts /\ c.ts < seg + Width

\* variant: the clip is inserted, nothing of the track is replaced
SpliceAt_Insert(track, rec, delta) == SliceTo(track, delta) \o rec \o SliceFrom(track, delta)
\* variant: the kept tail starts one tick late
SpliceAt_OffByOne(track, rec, delta) ==
  SliceTo(track, delta) \o rec \o SliceFrom(track, delta + Len(rec) + 1)
\* variant: the clip is appended to the end of the track
SpliceAt_Append(track, rec, delta) == track \o rec
\* variant: nothing of the track is kept behind the clip
SpliceAt_DropTail(track, rec, delta) == SliceTo(track, delta) \o rec
\* lines 291-297: the splice
SpliceAt(track, rec, delta) == SliceTo(track, delta) \o rec \o SliceFrom(track, delta + Len(rec))

Segment(w) == timeSegments[w][segIdx[w]]
File(w) == recFiles[w][fileIdx[w]]
Target(w) == <<tg[w], Segment(w)>>
Exists(path) == path \in DOMAIN outFS
WriteFile(path, data) == [p \in DOMAIN outFS \cup {path} |-> IF p = path THEN data ELSE outFS[p]]

\* a process opens, writes or removes a file
RecFile(c) == [kind |-> "rec", tg |-> c.tg, key |-> c.id]
OutFile(path) == [kind |-> "out", tg |-> path[1], key |-> path[2]]
Touch(w, f) == touched' = touched \cup {[w |-> w, kind |-> f.kind, tg |-> f.tg, key |-> f.key]}

EmptyFS == [p \in {} |-> <<>>]

\* ------------------------------------------------------------------ Init
\* the state before the first invocation: the command line (the same for
\* every invocation) and the csv file are given, the recording tree and the
\* archive are empty
InitWith(tgs, n, keeps) ==
  /\ talkgroups = tgs /\ numThreads = n
  /\ remove \in BOOLEAN /\ keepEmpty \in keeps /\ norm \in NormValues
  /\ recFS = {} /\ outFS = EmptyFS /\ nextId = 0 /\ runs = 0
  /\ now = 0
  /\ mainPc = "idle" /\ exit = "none" /\ taskq = <<>>
  /\ result = [t \in TGs |-> "none"]
  /\ pc = [w \in Workers |-> "idle"]
  /\ tg = [w \in Workers |-> NoTG]
  /\ recFiles = [w \in Workers |-> <<>>]
  /\ timeSegments = [w \in Workers |-> <<>>]
  /\ segIdx = [w \in Workers |-> 0]
  /\ fileIdx = [w \in Workers |-> 0]
  /\ outputRec = [w \in Workers |-> <<>>]
  /\ hasAudio = [w \in Workers |-> FALSE]
  /\ filesToDelete = [w \in Workers |-> <<>>]
  /\ spliced = {} /\ deleted = {} /\ exported = {} /\ exportFailed = {}
  /\ discarded = {} /\ removeFailed = {} /\ touched = {}
  /\ startRec = {} /\ prev = NoPrev

\* one talkgroup, one pool process
Init == InitWith(<<1>>, 1, BOOLEAN)

\* ----------------------------------------------------------- environment
\* the recorder writes a clip file <tg>-<ts>_....wav into the recording tree
\* (files written after the last invocation are never looked at)
ArriveClip(tgs, times, kinds, max) ==
  /\ mainPc = "idle" /\ nextId < max /\ runs < MaxRuns
  /\ \E t \in tgs, ts \in times, k \in kinds :
       recFS' = recFS \cup {[id |-> nextId + 1, tg |-> t, ts |-> ts, dur |-> k.dur, ok |-> k.ok]}
  /\ nextId' = nextId + 1
  /\ UNCHANGED <<cfgVars, outFS, runs, now, mainPc, exit, taskq, result, pc, tg>>
  /\ UNCHANGED localVars /\ UNCHANGED histVars
Arrive == ArriveClip(TGs, ClipTimes, ClipKinds, MaxClips)

\* main(): parseArgs, getTalkgroups, Pool(processes=numThreads), p.map
StartRun ==
  /\ mainPc = "idle" /\ runs < MaxRuns
  /\ \E n \in NowTimes :
       /\ n >= now /\ now' = n
       /\ prev' = IF /\ runs > 0 /\ exit = "finished" /\ recFS = startRec
                     /\ datetimeFloor(n, Width) = datetimeFloor(now, Width)
                  THEN [same |-> TRUE, out |-> outFS,
                        spliced |-> {<<e.id, e.seg>> : e \in spliced}]
                  ELSE NoPrev
  /\ runs' = runs + 1
  /\ mainPc' = "map" /\ exit' = "none"
  /\ taskq' = talkgroups
  /\ result' = [t \in TGs |-> "none"]
  /\ spliced' = {} /\ deleted' = {} /\ exported' = {} /\ exportFailed' = {}
  /\ discarded' = {} /\ removeFailed' = {} /\ touched' = {}
  /\ startRec' = recFS
  /\ UNCHANGED <<cfgVars, recFS, outFS, nextId, pc, tg>>
  /\ UNCHANGED localVars

\* p.map returns once every task is done; it re-raises a task's exception,
\* otherwise main logs "Finished!"
AnyExc == \E t \in TGs : result[t] = "exc"
MapReturn ==
  /\ mainPc = "map" /\ taskq = <<>>
  /\ \A w \in Workers : pc[w] = "idle"
  /\ ~AnyExc
  /\ mainPc' = "idle" /\ exit' = "finished"
  /\ UNCHANGED <<recFS, outFS, nextId, runs, now, cfgVars, taskq, result, pc, tg>>
  /\ UNCHANGED localVars /\ UNCHANGED histVars
MapRaise ==
  /\ mainPc = "map" /\ taskq = <<>>
  /\ \A w \in Workers : pc[w] = "idle"
  /\ AnyExc
  /\ mainPc' = "idle" /\ exit' = "raised"
  /\ UNCHANGED <<recFS, outFS, nextId, runs, now, cfgVars, taskq, result, pc, tg>>
  /\ UNCHANGED localVars /\ UNCHANGED histVars

\* variant: the talkgroup handed out stays on the list
TakeTask_NoPop(w) ==
  /\ mainPc = "map" /\ pc[w] = "idle" /\ taskq # <<>>
  /\ tg' = [tg EXCEPT ![w] = Head(taskq)]
  /\ result' = [result EXCEPT ![Head(taskq)] = "run"]
  /\ pc' = [pc EXCEPT ![w] = "scan"]
  /\ UNCHANGED <<recFS, outFS, nextId, runs, now, cfgVars, mainPc, exit, taskq>>
  /\ UNCHANGED localVars /\ UNCHANGED histVars
\* --------------------------------------------------------------- workers
\* a pool worker takes the next talkgroup of the list
TakeTask(w) ==
  /\ mainPc = "map" /\ pc[w] = "idle" /\ taskq # <<>>
  /\ tg' = [tg EXCEPT ![w] = Head(taskq)]
  /\ taskq' = Tail(taskq)
  /\ result' = [result EXCEPT ![Head(taskq)] = "run"]
  /\ pc' = [pc EXCEPT ![w] = "scan"]
  /\ UNCHANGED <<recFS, outFS, nextId, runs, now, cfgVars, mainPc, exit>>
  /\ UNCHANGED localVars /\ UNCHANGED histVars

\* the worker's locals are dropped when combineTalkgroup ends
Leave(w, how) ==
  /\ result' = [result EXCEPT ![tg[w]] = how]
  /\ pc' = [pc EXCEPT ![w] = "idle"]
  /\ tg' = [tg EXCEPT ![w] = NoTG]
  /\ recFiles' = [recFiles EXCEPT ![w] = <<>>]
  /\ timeSegments' = [timeSegments EXCEPT ![w] = <<>>]
  /\ segIdx' = [segIdx EXCEPT ![w] = 0]
  /\ fileIdx' = [fileIdx EXCEPT ![w] = 0]
  /\ outputRec' = [outputRec EXCEPT ![w] = <<>>]
  /\ hasAudio' = [hasAudio EXCEPT ![w] = FALSE]
  /\ filesToDelete' = [filesToDelete EXCEPT ![w] = <<>>]

\* the for loop over timeSegments moves on (or the function returns)
NextSegment(w) ==
  /\ pc' = [pc EXCEPT ![w] = "open"]
  /\ segIdx' = [segIdx EXCEPT ![w] = @ + 1]
  /\ fileIdx' = [fileIdx EXCEPT ![w] = 0]
  /\ outputRec' = [outputRec EXCEPT ![w] = <<>>]
  /\ hasAudio' = [hasAudio EXCEPT ![w] = FALSE]
  /\ filesToDelete' = [filesToDelete EXCEPT ![w] = <<>>]
  /\ UNCHANGED <<tg, result, recFiles, timeSegments>>

\* the for loop over recFiles moves on
NextFile(w) ==
  /\ fileIdx' = [fileIdx EXCEPT ![w] = @ + 1]
  /\ pc' = [pc EXCEPT ![w] = IF fileIdx[w] = Len(recFiles[w]) THEN "save" ELSE "file"]
  /\ UNCHANGED <<tg, result, recFiles, timeSegments, segIdx>>

\* variant: the walk does not compare the file's talkgroup with tgId
TgFiles_All(t) == WalkOrder(recFS)
\* lines 203-230: the walk keeps the files whose name starts with tgId
TgFiles(t) == WalkOrder({c \in recFS : c.tg = t})

\* lines 203-230: no recording of the talkgroup, return
ScanNone(w) ==
  /\ pc[w] = "scan" /\ TgFiles(tg[w]) = <<>>
  /\ Leave(w, "ok")
  /\ UNCHANGED envVars /\ UNCHANGED histVars

\* lines 203-246: collect the recordings and plan the segments
ScanPlan(w) ==
  /\ pc[w] = "scan" /\ TgFiles(tg[w]) # <<>>
  /\ recFiles' = [recFiles EXCEPT ![w] = TgFiles(tg[w])]
  /\ timeSegments' = [timeSegments EXCEPT ![w] = Plan(TgFiles(tg[w]))]
  /\ segIdx' = [segIdx EXCEPT ![w] = 1]
  /\ pc' = [pc EXCEPT ![w] = "open"]
  /\ UNCHANGED <<tg, result, fileIdx, outputRec, hasAudio, filesToDelete>>
  /\ UNCHANGED envVars /\ UNCHANGED histVars

\* line 249: timeSegments exhausted, combineTalkgroup returns
Return(w) ==
  /\ pc[w] = "open" /\ segIdx[w] > Len(timeSegments[w])
  /\ Leave(w, "ok")
  /\ UNCHANGED envVars /\ UNCHANGED histVars

\* lines 250-269: open the existing output file or start from silence
OpenSegment(w) ==
  /\ pc[w] = "open" /\ segIdx[w] <= Len(timeSegments[w])
  /\ Exists(Target(w)) => outFS[Target(w)] # <<>>
  /\ outputRec' = [outputRec EXCEPT ![w] =
                     IF Exists(Target(w)) THEN outFS[Target(w)] ELSE Silent(Width)]
  /\ hasAudio' = [hasAudio EXCEPT ![w] = FALSE]
  /\ filesToDelete' = [filesToDelete EXCEPT ![w] = <<>>]
  /\ fileIdx' = [fileIdx EXCEPT ![w] = 1]
  /\ pc' = [pc EXCEPT ![w] = "file"]
  /\ IF Exists(Target(w)) THEN Touch(w, OutFile(Target(w))) ELSE UNCHANGED touched
  /\ UNCHANGED <<tg, result, recFiles, timeSegments, segIdx>>
  /\ UNCHANGED envVars
  /\ UNCHANGED <<spliced, deleted, exported, exportFailed, discarded, removeFailed, startRec, prev>>

\* line 262: from_file on a zero-length output file raises CouldntDecodeError
\* outside the try block
OpenRaise(w) ==
  /\ pc[w] = "open" /\ segIdx[w] <= Len(timeSegments[w])
  /\ Exists(Target(w)) /\ outFS[Target(w)] = <<>>
  /\ Touch(w, OutFile(Target(w)))
  /\ Leave(w, "exc")
  /\ UNCHANGED envVars
  /\ UNCHANGED <<spliced, deleted, exported, exportFailed, discarded, removeFailed, startRec, prev>>

\* line 274: the timestamp is not inside the range
SkipFile(w) ==
  /\ pc[w] = "file" /\ ~Qualifies(File(w), Segment(w))
  /\ NextFile(w)
  /\ UNCHANGED <<outputRec, hasAudio, filesToDelete>>
  /\ UNCHANGED envVars /\ UNCHANGED histVars

\* variant: no except clause, the decode error ends combineTalkgroup
DecodeError_Abort(w) ==
  /\ pc[w] = "file" /\ Qualifies(File(w), Segment(w)) /\ ~File(w).ok
  /\ Touch(w, RecFile(File(w)))
  /\ Leave(w, "exc")
  /\ UNCHANGED envVars
  /\ UNCHANGED <<spliced, deleted, exported, exportFailed, discarded, removeFailed, startRec, prev>>
\* variant: the file that failed to decode is marked for deletion as well
DecodeError_Mark(w) ==
  /\ pc[w] = "file" /\ Qualifies(File(w), Segment(w)) /\ ~File(w).ok
  /\ Touch(w, RecFile(File(w)))
  /\ NextFile(w)
  /\ filesToDelete' = [filesToDelete EXCEPT ![w] = IF remove THEN Append(@, File(w)) ELSE @]
  /\ UNCHANGED <<outputRec, hasAudio>>
  /\ UNCHANGED envVars
  /\ UNCHANGED <<spliced, deleted, exported, exportFailed, discarded, removeFailed, startRec, prev>>

\* lines 304-306: CouldntDecodeError, the file is skipped and not removed
DecodeError(w) ==
  /\ pc[w] = "file" /\ Qualifies(File(w), Segment(w)) /\ ~File(w).ok
  /\ Touch(w, RecFile(File(w)))
  /\ NextFile(w)
  /\ UNCHANGED <<outputRec, hasAudio, filesToDelete>>
  /\ UNCHANGED envVars
  /\ UNCHANGED <<spliced, deleted, exported, exportFailed, discarded, removeFailed, startRec, prev>>

\* line 288: "if norm:" with the global norm never bound raises NameError,
\* which the except clause of line 304 does not catch
NormUnbound(w) ==
  /\ pc[w] = "file" /\ Qualifies(File(w), Segment(w)) /\ File(w).ok
  /\ norm = "unbound"
  /\ Touch(w, RecFile(File(w)))
  /\ Leave(w, "exc")
  /\ UNCHANGED envVars
  /\ UNCHANGED <<spliced, deleted, exported, exportFailed, discarded, removeFailed, startRec, prev>>

\* lines 277-303: decode, normalise, splice at the offset, mark for deletion
Delta(w) == File(w).ts - Segment(w)
Splice(w) ==
  /\ pc[w] = "file" /\ Qualifies(File(w), Segment(w)) /\ File(w).ok
  /\ norm = "true"
  /\ outputRec' = [outputRec EXCEPT ![w] = SpliceAt(@, Normalize(Decode(File(w))), Delta(w))]
  /\ hasAudio' = [hasAudio EXCEPT ![w] = TRUE]
  /\ filesToDelete' = [filesToDelete EXCEPT ![w] = IF remove THEN Append(@, File(w)) ELSE @]
  /\ spliced' = spliced \cup {[id |-> File(w).id, tg |-> tg[w], seg |-> Segment(w),
                               delta |-> Delta(w), len |-> File(w).dur]}
  /\ Touch(w, RecFile(File(w)))
  /\ NextFile(w)
  /\ UNCHANGED envVars
  /\ UNCHANGED <<deleted, exported, exportFailed, discarded, removeFailed, startRec, prev>>

\* lines 309-315: no audio and empty files are not kept: continue
DiscardEmpty(w) ==
  /\ pc[w] = "save" /\ ~hasAudio[w] /\ ~keepEmpty
  /\ discarded' = discarded \cup {Target(w)}
  /\ NextSegment(w)
  /\ UNCHANGED envVars
  /\ UNCHANGED <<spliced, deleted, exported, exportFailed, removeFailed, touched, startRec, prev>>

\* variant: the empty track is exported untrimmed
ToExport_NoTrim(w) == outputRec[w]
\* lines 309-312: the track handed to export
ToExport(w) == IF hasAudio[w] THEN outputRec[w] ELSE Slice(outputRec[w], 0, StubLen)

\* lines 329-334: once the written file is seen to exist and remove is set,
\* go through filesToDelete
ThenRemove(w) ==
  IF Target(w) \in DOMAIN outFS' /\ remove /\ filesToDelete[w] # <<>>
    THEN /\ pc' = [pc EXCEPT ![w] = "delete"]
         /\ UNCHANGED <<tg, result, recFiles, timeSegments, segIdx, fileIdx,
                        outputRec, hasAudio, filesToDelete>>
    ELSE NextSegment(w)

\* lines 322-330: export returns, the file holds the track
ExportOk(w) ==
  /\ pc[w] = "save" /\ (hasAudio[w] \/ keepEmpty)
  /\ outFS' = WriteFile(Target(w), ToExport(w))
  /\ exported' = exported \cup {Target(w)}
  /\ Touch(w, OutFile(Target(w)))
  /\ ThenRemove(w)
  /\ UNCHANGED <<cfgVars, recFS, nextId, runs, now, mainPc, exit, taskq>>
  /\ UNCHANGED <<spliced, deleted, exportFailed, discarded, removeFailed, startRec, prev>>

\* variant: the exception of export is swallowed and the removal goes ahead
ExportRaise_Swallowed(w) ==
  /\ pc[w] = "save" /\ (hasAudio[w] \/ keepEmpty)
  /\ \/ UNCHANGED outFS
     \/ outFS' = WriteFile(Target(w), <<>>)
  /\ exportFailed' = exportFailed \cup {Target(w)}
  /\ Touch(w, OutFile(Target(w)))
  /\ ThenRemove(w)
  /\ UNCHANGED <<cfgVars, recFS, nextId, runs, now, mainPc, exit, taskq>>
  /\ UNCHANGED <<spliced, deleted, exported, discarded, removeFailed, startRec, prev>>

\* lines 324-327: export raises (the encoder fails, the file cannot be
\* written); the target is left as it was or left zero-length
ExportRaise(w) ==
  /\ pc[w] = "save" /\ (hasAudio[w] \/ keepEmpty)
  /\ \/ UNCHANGED outFS
     \/ outFS' = WriteFile(Target(w), <<>>)
  /\ exportFailed' = exportFailed \cup {Target(w)}
  /\ Touch(w, OutFile(Target(w)))
  /\ Leave(w, "exc")
  /\ UNCHANGED <<cfgVars, recFS, nextId, runs, now, mainPc, exit, taskq>>
  /\ UNCHANGED <<spliced, deleted, exported, discarded, removeFailed, startRec, prev>>

\* lines 332-334: os.remove of the next file marked for deletion
AfterRemove(w) ==
  IF Len(filesToDelete[w]) = 1
    THEN NextSegment(w)
    ELSE /\ filesToDelete' = [filesToDelete EXCEPT ![w] = Tail(@)]
         /\ UNCHANGED <<pc, tg, result, recFiles, timeSegments, segIdx, fileIdx,
                        outputRec, hasAudio>>
RemoveOk(w) ==
  /\ pc[w] = "delete"
  /\ recFS' = {c \in recFS : c.id # Head(filesToDelete[w]).id}
  /\ deleted' = deleted \cup {[id |-> Head(filesToDelete[w]).id, tg |-> tg[w],
                               seg |-> Segment(w), ts |-> Head(filesToDelete[w]).ts]}
  /\ Touch(w, RecFile(Head(filesToDelete[w])))
  /\ AfterRemove(w)
  /\ UNCHANGED <<cfgVars, outFS, nextId, runs, now, mainPc, exit, taskq>>
  /\ UNCHANGED <<spliced, exported, exportFailed, discarded, removeFailed, startRec, prev>>

\* line 334: os.remove raises OSError
RemoveRaise(w) ==
  /\ pc[w] = "delete"
  /\ removeFailed' = removeFailed \cup {[id |-> Head(filesToDelete[w]).id, tg |-> tg[w],
                                         seg |-> Segment(w)]}
  /\ Touch(w, RecFile(Head(filesToDelete[w])))
  /\ Leave(w, "exc")
  /\ UNCHANGED envVars
  /\ UNCHANGED <<spliced, deleted, exported, exportFailed, discarded, startRec, prev>>

\* combineTalkgroup in the pool processes
WorkerStep ==
  \/ \E w \in Workers : TakeTask(w)
  \/ \E w \in Workers : ScanNone(w)
  \/ \E w \in Workers : ScanPlan(w)
  \/ \E w \in Workers : Return(w)
  \/ \E w \in Workers : OpenSegment(w)
  \/ \E w \in Workers : OpenRaise(w)
  \/ \E w \in Workers : SkipFile(w)
  \/ \E w \in Workers : DecodeError(w)
  \/ \E w \in Workers : NormUnbound(w)
  \/ \E w \in Workers : Splice(w)
  \/ \E w \in Workers : DiscardEmpty(w)
  \/ \E w \in Workers : ExportOk(w)
  \/ \E w \in Workers : ExportRaise(w)
  \/ \E w \in Workers : RemoveOk(w)
  \/ \E w \in Workers : RemoveRaise(w)

Next == Arrive \/ StartRun \/ MapReturn \/ MapRaise \/ WorkerStep

Spec == Init /\ [][Next]_vars

\* the pool run: three talkgroups shared by PoolSize processes, run without
\* --keep-empty; the recorder has clips for the first two talkgroups only,
\* each one tick into the first segment and decoding to one tick of audio or
\* not at all
PoolSize == 2         \* -n 2
PoolTalkgroups == <<1, 2, 3>>
PoolClipTGs == {1, 2}
PoolClipTimes == {1}
PoolClipKinds == {k \in ClipKinds : k.dur <= 1}
InitPool == InitWith(PoolTalkgroups, PoolSize, {FALSE})
ArrivePool == ArriveClip(PoolClipTGs, PoolClipTimes, PoolClipKinds, MaxClips)
NextPool == ArrivePool \/ StartRun \/ MapReturn \/ MapRaise \/ WorkerStep
SpecPool == InitPool /\ [][NextPool]_vars

\* the pool run under scheduling, on a recording tree that holds one clip
\* for each of the first two talkgroups when the tool is first invoked: a
\* pool process that can take a step eventually takes one, and main returns
\* from p.map once it can
InitDispatch ==
  \E k1 \in PoolClipKinds, k2 \in PoolClipKinds :
    /\ talkgroups = PoolTalkgroups /\ numThreads = PoolSize
    /\ remove \in BOOLEAN /\ keepEmpty = FALSE /\ norm \in NormValues
    /\ recFS = {[id |-> 1, tg |-> 1, ts |-> 1, dur |-> k1.dur, ok |-> k1.ok],
                [id |-> 2, tg |-> 2, ts |-> 1, dur |-> k2.dur, ok |-> k2.ok]}
    /\ outFS = EmptyFS /\ nextId = 2 /\ runs = 0 /\ now = 0
    /\ mainPc = "idle" /\ exit = "none" /\ taskq = <<>>
    /\ result = [t \in TGs |-> "none"]
    /\ pc = [w \in Workers |-> "idle"]
    /\ tg = [w \in Workers |-> NoTG]
    /\ recFiles = [w \in Workers |-> <<>>]
    /\ timeSegments = [w \in Workers |-> <<>>]
    /\ segIdx = [w \in Workers |-> 0]
    /\ fileIdx = [w \in Workers |-> 0]
    /\ outputRec = [w \in Workers |-> <<>>]
    /\ hasAudio = [w \in Workers |-> FALSE]
    /\ filesToDelete = [w \in Workers |-> <<>>]
    /\ spliced = {} /\ deleted = {} /\ exported = {} /\ exportFailed = {}
    /\ discarded = {} /\ removeFailed = {} /\ touched = {}
    /\ startRec = {} /\ prev = NoPrev
NextDispatch == StartRun \/ MapReturn \/ MapRaise \/ WorkerStep
SpecDispatch ==
  /\ InitDispatch /\ [][NextDispatch]_vars
  /\ WF_vars(WorkerStep) /\ WF_vars(MapReturn) /\ WF_vars(MapRaise)

\* ------------------------------------------- an encoder that writes nothing
\* lines 324-330: export returns although the encoder it ran produced no
\* output (exit status 0, empty result): the target is a zero-length file
ExportEmpty(w) ==
  /\ pc[w] = "save" /\ (hasAudio[w] \/ keepEmpty)
  /\ outFS' = WriteFile(Target(w), <<>>)
  /\ exported' = exported \cup {Target(w)}
  /\ Touch(w, OutFile(Target(w)))
  /\ ThenRemove(w)
  /\ UNCHANGED <<cfgVars, recFS, nextId, runs, now, mainPc, exit, taskq>>
  /\ UNCHANGED <<spliced, deleted, exportFailed, discarded, removeFailed, startRec, prev>>
NextCodec == Next \/ \E w \in Workers : ExportEmpty(w)
SpecCodec == Init /\ [][NextCodec]_vars

\* ------------------------------------------------- the merge loop, twice
\* lines 271-306 executed on one segment by two executions that start from
\* the same base track and see the same clip files, the second in another
\* order of the directory walk
OrderTimes == {1, Width - 1}
OrderKinds == [ts : OrderTimes, dur : ClipDurs]
OrderBases == {Silent(Width), Silent(StubLen)}
Perms(n) == {p \in [1..n -> 1..n] : \A i, j \in 1..n : p[i] = p[j] => i = j}
InitOrder ==
  \E n \in 2..MaxOrderClips : \E ks \in [1..n -> OrderKinds] :
  \E p \in Perms(n) : \E base \in OrderBases :
    LET cl(i) == [id |-> i, tg |-> 1, ts |-> ks[i].ts, dur |-> ks[i].dur, ok |-> TRUE]
    IN /\ talkgroups = <<1>> /\ numThreads = 2
       /\ remove = FALSE /\ keepEmpty = TRUE /\ norm = "true"
       /\ recFS = {cl(i) : i \in 1..n} /\ nextId = n
       /\ outFS = IF base = Silent(Width) THEN EmptyFS
                  ELSE [q \in {<<1, Epoch>>} |-> base]
       /\ runs = 1 /\ now = Width + 1
       /\ mainPc = "map" /\ exit = "none" /\ taskq = <<>>
       /\ result = [t \in {1} |-> "run"]
       /\ pc = [w \in 1..2 |-> "file"]
       /\ tg = [w \in 1..2 |-> 1]
       /\ recFiles = [w \in 1..2 |-> IF w = 1 THEN [i \in 1..n |-> cl(i)]
                                     ELSE [i \in 1..n |-> cl(p[i])]]
       /\ timeSegments = [w \in 1..2 |-> <<Epoch>>]
       /\ segIdx = [w \in 1..2 |-> 1]
       /\ fileIdx = [w \in 1..2 |-> 1]
       /\ outputRec = [w \in 1..2 |-> base]
       /\ hasAudio = [w \in 1..2 |-> FALSE]
       /\ filesToDelete = [w \in 1..2 |-> <<>>]
       /\ spliced = {} /\ deleted = {} /\ exported = {} /\ exportFailed = {}
       /\ discarded = {} /\ removeFailed = {} /\ touched = {}
       /\ startRec = {cl(i) : i \in 1..n} /\ prev = NoPrev
NextOrder == \E w \in Workers : Splice(w)
SpecOrder == InitOrder /\ [][NextOrder]_vars

\* ================================================================ claims
\* track index i (from 1) lies in the range [delta, delta+len) of splice e
Covered(e, i) == e.delta < i /\ i <= e.delta + e.len
\* the track holds the audio of the spliced clip over exactly that range
HoldsClip(track, e) ==
  /\ Len(track) >= e.delta + e.len
  /\ \A i \in 1..e.len : track[e.delta + i][1] = e.id /\ track[e.delta + i][2] = i
WorkerOf(t) == CHOOSE w \in Workers : tg[w] = t
RunOver == mainPc = "idle" /\ runs > 0

\* C1: a clip file leaves the recording tree only when the export of the
\* segment it was spliced into has returned in this run, did not fail, and
\* the segment's output file exists.
C1_DeleteAfterExport ==
  [][\A c \in recFS : c \notin recFS' =>
        \E e \in spliced :
           /\ e.id = c.id /\ e.tg = c.tg
           /\ <<e.tg, e.seg>> \in exported
           /\ <<e.tg, e.seg>> \notin exportFailed
           /\ <<e.tg, e.seg>> \in DOMAIN outFS]_vars
C1_Witness == deleted # {} /\ runs = 2

\* C2 (as claimed): whenever an export returns over an existing output file,
\* every tick of clip audio that file held is still there afterwards unless
\* a clip spliced in this run covers it.
C2_CommittedAudioKept ==
  [][\A p \in exported' \ exported : p \in DOMAIN outFS =>
       \A i \in 1..Len(outFS[p]) :
          outFS[p][i] # Silence =>
             \/ (i <= Len(outFS'[p]) /\ outFS'[p][i] = outFS[p][i])
             \/ \E e \in spliced' : e.tg = p[1] /\ e.seg = p[2] /\ Covered(e, i)]_vars

\* C3 (as claimed): right after a clip is spliced, the track holds its audio
\* over [offset, offset+duration), whatever the base track was.
C3_SpliceAtOffset ==
  [][\A e \in spliced' \ spliced : HoldsClip(outputRec'[WorkerOf(e.tg)], e)]_vars

\* C4 (as claimed): an invocation that repeats the previous one on unchanged
\* input leaves the archive as it was, removes nothing and repeats no splice.
C4_Idempotent ==
  (RunOver /\ exit = "finished" /\ prev.same) =>
     /\ outFS = prev.out
     /\ deleted = {}
     /\ \A e \in spliced : <<e.id, e.seg>> \notin prev.spliced

\* C5 (as claimed): when the clips of a planned segment have been gone
\* through, every decodable clip with floor(t, w) = segment start has been
\* spliced into it, t = segment start included, and no clip into another.
C5_Bucketing ==
  \A w \in Workers : pc[w] = "save" =>
     /\ \A i \in 1..Len(recFiles[w]) :
          (recFiles[w][i].ok /\ datetimeFloor(recFiles[w][i].ts, Width) = Segment(w))
             => \E e \in spliced : e.id = recFiles[w][i].id /\ e.seg = Segment(w)
     /\ \A e \in spliced : datetimeFloor(e.seg + e.delta, Width) = e.seg

\* C6: when the span from floor(min clip time) to floor(now) exceeds the
\* lookback limit, every planned segment starts at or after
\* floor(now) - limit and there are at most limit/width of them; clips older
\* than that bound are not spliced, not removed, and stay in the tree.
Bound == MaxDate - LookbackLimit
Clamped(w) ==
  /\ recFiles[w] # <<>>
  /\ MaxDate - datetimeFloor(MinTs(recFiles[w]), Width) > LookbackLimit
C6_LookbackClamp ==
  /\ \A w \in Workers : Clamped(w) =>
        /\ Len(timeSegments[w]) <= LookbackLimit \div Width
        /\ \A i \in 1..Len(timeSegments[w]) : timeSegments[w][i] >= Bound
  /\ \A e \in spliced : e.seg + e.delta >= Bound
  /\ \A d \in deleted : d.ts >= Bound
  /\ runs > 0 => \A c \in startRec : c.ts < Bound => c \in recFS
C6_Witness ==
  \E w \in Workers :
     /\ Clamped(w) /\ pc[w] = "save" /\ hasAudio[w]
     /\ \E c \in recFS : c.tg = tg[w] /\ c.ok /\ c.ts < Bound

\* C7: a segment without a decodable qualifying clip is, with keep-empty
\* off, skipped with no export, no change of any output file and no removal;
\* with keep-empty on it goes to export, and what export writes is StubLen
\* of silence.
NoAudioFor(w) ==
  \A i \in 1..Len(recFiles[w]) :
     ~(Qualifies(recFiles[w][i], Segment(w)) /\ recFiles[w][i].ok)
C7_EmptySegmentPolicy ==
  [][\A w \in Workers : (pc[w] = "save" /\ NoAudioFor(w) /\ pc'[w] # "save") =>
        /\ recFS' = recFS /\ deleted' = deleted
        /\ IF keepEmpty
             THEN /\ Target(w) \notin discarded'
                  /\ Target(w) \in exported' \cup exportFailed'
                  /\ Target(w) \in exported' => outFS'[Target(w)] = Silent(StubLen)
             ELSE /\ outFS' = outFS /\ exported' = exported
                  /\ exportFailed' = exportFailed
                  /\ Target(w) \in discarded']_vars
C7_Witness == \E p \in exported : outFS[p] = Silent(StubLen) /\ runs = 2

\* C8: splicing a clip into a track at least Width long puts its audio over
\* its own range, the overlap with earlier clips included, and leaves what
\* the track held of an earlier clip outside that range where it was.
C8_OverlapLaterWins ==
  [][\A e \in spliced' \ spliced :
       LET w == WorkerOf(e.tg)
           old == outputRec[w]
           new == outputRec'[w]
       IN Len(old) >= Width =>
            /\ HoldsClip(new, e)
            /\ \A f \in spliced : (f.tg = e.tg /\ f.seg = e.seg) =>
                 \A i \in 1..f.len :
                    (/\ ~Covered(e, f.delta + i) /\ f.delta + i <= Len(old)
                     /\ old[f.delta + i][1] = f.id /\ old[f.delta + i][2] = i)
                      => (f.delta + i <= Len(new) /\ new[f.delta + i] = old[f.delta + i])]_vars
C8_Witness ==
  \E w \in Workers : \E e, f \in spliced :
     /\ pc[w] = "save" /\ runs = 1 /\ e.tg = tg[w] /\ f.tg = tg[w]
     /\ e.seg = Segment(w) /\ f.seg = Segment(w) /\ e.id # f.id
     /\ e.delta < f.delta + f.len /\ f.delta < e.delta + e.len
     /\ \E i, j \in 1..Len(outputRec[w]) :
          outputRec[w][i][1] = e.id /\ outputRec[w][j][1] = f.id

\* C9 (as claimed): when the invocation is over, every decodable clip that
\* qualifies for a planned segment later than one whose export failed has
\* been spliced and its segment has gone to export.
C9_ExportFailureIsolated ==
  (RunOver /\ norm = "true") =>
     \A p \in exportFailed : \A c \in startRec :
        LET seg == datetimeFloor(c.ts, Width) IN
        (c.tg = p[1] /\ c.ok /\ Qualifies(c, seg) /\ seg > p[2] /\ seg < MaxDate)
           => /\ \E e \in spliced : e.id = c.id /\ e.seg = seg
              /\ <<c.tg, seg>> \in exported \cup exportFailed

\* C10 (as claimed): when the pool run is over, every talkgroup of the list
\* has been processed to its end and main has reached "Finished!", whatever
\* was raised while a talkgroup was being processed.
C10_PoolIsolated ==
  RunOver => /\ \A t \in TGs : result[t] \in {"ok", "exc"}
             /\ exit = "finished"

C12_RemoveOnlyConsumed ==
  /\ ~remove => (deleted = {} /\ startRec \subseteq recFS)
  /\ {c.id : c \in startRec \ recFS} = {d.id : d \in deleted}
  /\ \A d \in deleted :
       /\ \E e \in spliced : e.id = d.id /\ e.tg = d.tg /\ e.seg = d.seg
       /\ <<d.tg, d.seg>> \in exported
  /\ \A e \in spliced :
       (remove /\ result[e.tg] = "ok") => \E d \in deleted : d.id = e.id /\ d.seg = e.seg
\* a talkgroup was merged with -rm: a spliced clip is gone, a clip of the same
\* talkgroup that was not spliced is still in the tree
C12_Witness ==
  /\ RunOver /\ remove
  /\ \E d \in deleted : \E c \in startRec \cap recFS :
       c.tg = d.tg /\ result[d.tg] = "ok"

\* C13: when a clip is spliced into a track that was loaded from the
\* segment's existing output file, every tick of the loaded track outside
\* the clip's range [offset, offset + duration) is still there afterwards,
\* with the same content at the same position.
C13_SpliceFrame ==
  [][\A e \in spliced' \ spliced :
       LET w == WorkerOf(e.tg)
           old == outputRec[w]
           new == outputRec'[w]
       IN Exists(Target(w)) =>
            \A i \in 1..Len(old) :
               ~Covered(e, i) => (i <= Len(new) /\ new[i] = old[i])]_vars
\* a reloaded track that held the audio of a clip consumed by an earlier
\* invocation has received a new clip and still holds the earlier audio
C13_Witness ==
  \E w \in Workers : \E e \in spliced :
     /\ pc[w] = "save" /\ Exists(Target(w))
     /\ e.tg = tg[w] /\ e.seg = Segment(w)
     /\ HoldsClip(outputRec[w], e)
     /\ \E i \in 1..Len(outputRec[w]) :
          /\ outputRec[w][i][1] # 0
          /\ \A f \in spliced : f.id # outputRec[w][i][1]

\* C14: the planned segment starts are exactly minDate, minDate + Width, ...
\* below maxDate = floor(now): each is a multiple of Width from the epoch and
\* its interval ends at or before now; the plan is empty when no clip is older
\* than floor(now); and no clip stamped at or after floor(now) is spliced or
\* removed in this invocation.
Planned(w) == pc[w] \notin {"idle", "scan"}
C14_PlanBelowNow ==
  /\ \A w \in Workers : Planned(w) =>
       LET ts == timeSegments[w]
           min == MinDate(recFiles[w])
       IN /\ Len(ts) = (IF min < MaxDate THEN (MaxDate - min) \div Width ELSE 0)
          /\ \A i \in 1..Len(ts) :
               /\ ts[i] = min + (i - 1) * Width
               /\ ts[i] < MaxDate
               /\ (ts[i] - Epoch) % Width = 0
               /\ ts[i] + Width <= now
          /\ (\A j \in 1..Len(recFiles[w]) : recFiles[w][j].ts >= MaxDate) => ts = <<>>
  /\ \A e \in spliced : e.seg + e.delta < MaxDate
  /\ \A d \in deleted : d.ts < MaxDate
\* a worker has merged a planned segment while a decodable clip of its
\* talkgroup stamped in the current bucket waits in the tree
C14_Witness ==
  \E w \in Workers :
     /\ pc[w] = "save" /\ hasAudio[w] /\ segIdx[w] = Len(timeSegments[w])
     /\ \E j \in 1..Len(recFiles[w]) : recFiles[w][j].ts >= MaxDate /\ recFiles[w][j].ok

\* C15 (as claimed): two executions of the merge loop over the same base
\* track and the same clips, taken in different orders, end with the same
\* track, overlapping clips included.
BothMerged == \A w \in Workers : pc[w] = "save"
C15_OrderIndependent == BothMerged => outputRec[1] = outputRec[2]
\* C15 (amended): the two executions end with the same track when the base
\* track is at least Width long and the ranges [offset, offset + duration)
\* of the clips are pairwise disjoint.
BaseLen == IF Exists(<<1, Epoch>>) THEN Len(outFS[<<1, Epoch>>]) ELSE Width
DisjointClips ==
  \A c \in recFS : \A d \in recFS :
     c.id # d.id => (c.ts + c.dur <= d.ts \/ d.ts + d.dur <= c.ts)
C15_DisjointOrderIndependent ==
  (BothMerged /\ BaseLen >= Width /\ DisjointClips) => outputRec[1] = outputRec[2]
\* disjoint clips were spliced in two different orders
C15_Witness ==
  /\ BothMerged /\ BaseLen >= Width /\ DisjointClips
  /\ recFiles[1] # recFiles[2]
  /\ \A c \in recFS : \A w \in Workers :
        \E i \in 1..Len(outputRec[w]) : outputRec[w][i][1] = c.id

\* C16: a qualifying clip that fails to decode is skipped and nothing else:
\* the step over it leaves the track, hasAudio, the deletion list and the
\* recording tree as they were and the loop goes on with the next file; the
\* file is still in the tree afterwards; and when the loop over the files is
\* done every decodable qualifying clip has been spliced, so the segment
\* goes to export with hasAudio set if there was one.
FailsToDecode(w) == pc[w] = "file" /\ Qualifies(File(w), Segment(w)) /\ ~File(w).ok
MergedAll(w) ==
  \A j \in 1..Len(recFiles[w]) :
     (Qualifies(recFiles[w][j], Segment(w)) /\ recFiles[w][j].ok) =>
        /\ hasAudio[w]
        /\ \E e \in spliced : e.id = recFiles[w][j].id /\ e.seg = Segment(w)
C16_DecodeFailureSkipsClip ==
  /\ [](\A c \in startRec : ~c.ok => c \in recFS)
  /\ [](\A w \in Workers : pc[w] = "save" => MergedAll(w))
  /\ [][\A w \in Workers :
          (FailsToDecode(w) /\ <<pc[w], fileIdx[w]>> # <<pc'[w], fileIdx'[w]>>) =>
             /\ outputRec'[w] = outputRec[w]
             /\ hasAudio'[w] = hasAudio[w]
             /\ filesToDelete'[w] = filesToDelete[w]
             /\ recFS' = recFS
             /\ pc'[w] \in {"file", "save"}
             /\ tg'[w] = tg[w] /\ segIdx'[w] = segIdx[w]
             /\ fileIdx'[w] = fileIdx[w] + 1]_vars
\* a segment is ready for export with the audio of one clip although another
\* qualifying clip of it failed to decode
C16_Witness ==
  \E w \in Workers :
     /\ pc[w] = "save" /\ hasAudio[w] /\ remove
     /\ \E j \in 1..Len(recFiles[w]) :
          Qualifies(recFiles[w][j], Segment(w)) /\ ~recFiles[w][j].ok
     /\ \E e \in spliced : e.seg = Segment(w) /\ HoldsClip(outputRec[w], e)

\* C17 (as claimed): a clip file leaves the recording tree only while the
\* output file of the segment it was spliced into exists and is not empty.
C17_DeleteOnlyIfNonEmpty ==
  [][\A c \in recFS : c \notin recFS' =>
        \E e \in spliced :
           /\ e.id = c.id /\ e.tg = c.tg
           /\ <<e.tg, e.seg>> \in DOMAIN outFS
           /\ outFS[<<e.tg, e.seg>>] # <<>>]_vars

\* C18 (as claimed): when the invocation is over and os.remove failed on a
\* clip of a committed segment, the segment's output file is in place, every
\* other clip spliced into that segment has been removed (unless os.remove
\* failed on it too), and every decodable clip qualifying for a later planned
\* segment has been spliced.
C18_RemoveFailureIsolated ==
  (RunOver /\ norm = "true") =>
     \A x \in removeFailed :
        /\ Exists(<<x.tg, x.seg>>) /\ outFS[<<x.tg, x.seg>>] # <<>>
        /\ \A e \in spliced :
             (e.tg = x.tg /\ e.seg = x.seg /\ e.id # x.id) =>
                \/ \E d \in deleted : d.id = e.id
                \/ \E y \in removeFailed : y.id = e.id
        /\ \A c \in startRec :
             LET seg == datetimeFloor(c.ts, Width) IN
             (c.tg = x.tg /\ c.ok /\ Qualifies(c, seg) /\ seg > x.seg /\ seg < MaxDate)
                => \E e \in spliced : e.id = c.id /\ e.seg = seg

\* C19: in a pool of numThreads processes at most numThreads talkgroups are
\* being processed at any moment; a talkgroup is handed out only while it has
\* not been handed out in this invocation, to one worker, and is with exactly
\* one worker until combineTalkgroup ends; and every invocation comes to the
\* end of p.map with every talkgroup of the list processed, reaching
\* "Finished!" when no combineTalkgroup raised.
Running == {t \in TGs : result[t] = "run"}
Holders(t) == {w \in Workers : tg[w] = t}
InTaskq(t) == \E i \in 1..Len(taskq) : taskq[i] = t
PoolDone ==
  /\ mainPc = "idle"
  /\ \A t \in TGs : result[t] \in {"ok", "exc"}
  /\ (\A t \in TGs : result[t] = "ok") => exit = "finished"
C19_PoolDispatch ==
  /\ [](/\ Cardinality(Running) <= numThreads
        /\ \A t \in TGs :
             /\ Cardinality(Holders(t)) = (IF result[t] = "run" THEN 1 ELSE 0)
             /\ InTaskq(t) => result[t] = "none")
  /\ [][\A t \in TGs : (result'[t] = "run" /\ result[t] # "run") => result[t] = "none"]_vars
  /\ (mainPc = "map" ~> PoolDone)
\* both pool processes are busy while a talkgroup waits on the list, in an
\* invocation in which nothing has been raised
C19_Witness ==
  /\ Cardinality(Running) = numThreads /\ numThreads > 1
  /\ taskq # <<>> /\ ~AnyExc
  /\ \E w \in Workers : pc[w] = "save" /\ hasAudio[w]

\* C20: a splice never shortens the track and leaves its length unchanged
\* when offset + duration is within the current length; a track that started
\* as Width of fresh silence is never shorter than Width, is exactly Width
\* long when every clip spliced into it ends inside the segment, and is
\* longer than Width only if some spliced clip runs past the segment end.
FreshBase(w) == pc[w] \in {"file", "save"} /\ ~Exists(Target(w))
SplicedInto(w) == {e \in spliced : e.tg = tg[w] /\ e.seg = Segment(w)}
C20_TrackLength ==
  /\ [](\A w \in Workers : FreshBase(w) =>
          /\ Len(outputRec[w]) >= Width
          /\ (\A e \in SplicedInto(w) : e.delta + e.len <= Width) => Len(outputRec[w]) = Width
          /\ Len(outputRec[w]) > Width => \E e \in SplicedInto(w) : e.delta + e.len > Width)
  /\ [][\A e \in spliced' \ spliced :
          LET w == WorkerOf(e.tg)
              old == outputRec[w]
              new == outputRec'[w]
          IN /\ Len(new) >= Len(old)
             /\ e.delta + e.len <= Len(old) => Len(new) = Len(old)]_vars
\* a fresh track has received one clip that ends inside the segment and is
\* still Width long, in an invocation in which another track grew past Width
C20_Witness ==
  \E w \in Workers :
     /\ FreshBase(w) /\ pc[w] = "save" /\ hasAudio[w]
     /\ Len(outputRec[w]) = Width
     /\ \E p \in exported : Len(outFS[p]) > Width

====
